---- MODULE Spec2Model ----
(***************************************************************************)
(* Model of src/app.py (loss-control-backend): the OAuth token manager     *)
(* (_amo_get_access_token, _amo_refresh_token, _amo_token_exchange,        *)
(* _tokens_set, oauth_callback), the paginated collector (_amo_list_paged) *)
(* and report_dashboard.                                                   *)
(*                                                                         *)
(* Three specifications share the module:                                  *)
(*   Spec        request threads running the token operations concurrently *)
(*   PagedSpec   one walk of _amo_list_paged at a time                     *)
(*   ReportSpec  one run of report_dashboard at a time                     *)
(*   AggSpec     the same, on the inputs that exercise the aggregation     *)
(***************************************************************************)
EXTENDS Integers, Sequences, FiniteSets, TLC

\* ------------------------------------------------------------------------
\* Bounds of the model
\* ------------------------------------------------------------------------
\* number of clock ticks a behaviour may take
MaxTicks == 1
\* seconds per clock tick
TickLen == 30
\* largest max_pages a walk of _amo_list_paged is started with
MaxPagesBound == 3
\* largest number of items the upstream puts on one page
MaxItems == 2
\* largest number of leads the stale prefilter query returns
MaxLeads == 2
\* largest number of leads the closed-leads query returns
MaxClosed == 2
\* int(time.time()) when a report is computed
ReportNow == 1000000

\* ------------------------------------------------------------------------
\* Program constants
\* ------------------------------------------------------------------------
\* the safety margin subtracted from expires_in (lines 220 and 241)
SafetyMargin == 60
\* MAX_STALE_ACTIVITY_CHECK (line 30), as set in the environment
MAX_STALE_ACTIVITY_CHECK == 1
\* default of the stale_days parameter (line 764)
stale_days == 7
\* seconds per day (line 773)
DaySeconds == 86400
\* status_id of a won lead (line 812) and of a lost one (lines 796, 812)
StatusWon == 142
StatusLost == 143

\* two request threads run concurrently; each serves one request
Procs == {1, 2}
\* subdomains (tenants) known to the service
Tenants == {"t1", "t2"}
\* expires_in values the provider may report (0 also stands for a missing
\* or null field: int(data.get("expires_in", 0) or 0))
ExpiresInValues == {0, 30, 90}

Max(a, b) == IF a >= b THEN a ELSE b

\* A token record of tokens.json.  id names the (access_token,
\* refresh_token) pair the provider issued; id = 0 is "no record" (None).
\* access tells whether the payload carries a non-empty access_token.
NoRec == [id |-> 0, access |-> FALSE, expires_at |-> 0]

VARIABLES
    now,         \* int(time.time())
    tokensFile,  \* content of TOKENS_FILE: subdomain -> record
    issued,      \* what the provider has issued so far: sequence, index = id,
                 \* of [sub, real_exp, access] (real_exp: when the access
                 \* token dies; access: the response carried an access_token)
    pc,          \* per request thread: position in its handler
    op,          \* per thread: "none", "get" (_amo_get_access_token) or
                 \* "callback" (oauth_callback)
    sub,         \* per thread: the subdomain of its request
    tok,         \* per thread: local tok of _amo_get_access_token while a
                 \* refresh is under way (locals are dropped at return)
    fresh,       \* per thread: record obtained from the provider in this request
    all_tokens,  \* per thread: local all_tokens of _tokens_set
    calls,       \* per thread: calls to the provider's token endpoint
    writes,      \* per thread: saves of TOKENS_FILE
    result       \* per thread: [kind, id] outcome of the request

\* _amo_list_paged
VARIABLES
    pg_pc,       \* "idle", "loop" (about to request a page), "done", "error"
    max_pages,   \* parameter max_pages
    page,        \* local page
    out,         \* local out; an item is written as the page it came from
    requests,    \* calls of _amo_request made by the walk
    lastItems,   \* number of items of the last response (-1: none yet)
    lastNext,    \* the last response had a "next" link
    firstPage    \* "none", or what page 1 answered: "empty_last" (no items,
                 \* no next link) or "other"

pagedvars == <<pg_pc, max_pages, page, out, requests, lastItems, lastNext,
               firstPage>>

\* report_dashboard
VARIABLES
    rp_pc,        \* "idle", "users", "reasons", "closed", "prefilter",
                  \* "deep", "finish", "done", "error"
    manager_id,   \* parameter manager_id (0: not given)
    pipeline_id,  \* parameter pipeline_id (0: not given)
    user_name,    \* local user_name
    reason_name,  \* local reason_name
    closed,       \* local closed
    lost_leads,   \* local lost_leads
    candidates,   \* local candidates
    warnings,     \* local warnings
    deep_i,       \* position of the loop "for l in deep"
    stale_leads,  \* local stale_leads
    checked,      \* per deep-checked lead: [id, open, failed, tts, nts,
                  \* ets]: whether the lead has an incomplete task at the
                  \* upstream, whether the open-task lookup failed, and
                  \* the answers of the task, note and event lookups
    failedFetch,  \* a call of _amo_list_paged of this report raised
    truncatedFetch, \* a call of _amo_list_paged of this report returned at
                  \* max_pages while the last page carried a next link
    failedLookup, \* a per-lead lookup of this report failed
    response      \* the answer of the request

reportvars == <<rp_pc, manager_id, pipeline_id, user_name, reason_name,
                closed, lost_leads, candidates, warnings, deep_i,
                stale_leads, checked, failedFetch, truncatedFetch,
                failedLookup, response>>

tokvars == <<now, tokensFile, issued, pc, op, sub, tok, fresh,
             all_tokens, calls, writes, result>>

NoResult == [kind |-> "none", id |-> 0]

\* ------------------------------------------------------------------------
\* Token manager: pure helpers
\* ------------------------------------------------------------------------
\* AMO_CLIENT_ID, AMO_CLIENT_SECRET and AMO_REDIRECT_URI are all set in the
\* environment of the deployment that is modelled
EnvConfigured == TRUE

\* line 248: if not tok
NotConnectedMut(t) == FALSE
NotConnected(t) == t = NoRec

\* line 251 with the margin applied a second time
IsExpiredMut(t, at) == t.expires_at <= at + SafetyMargin
\* line 251: int(tok.get("expires_at", 0)) <= int(time.time())
IsExpired(t, at) == t.expires_at <= at

\* lines 219-220 and 240-241: int(time.time()) + max(expires_in - 60, 0)
ExpiresAt(at, expires_in) == at + Max(expires_in - SafetyMargin, 0)

\* lines 218-222 and 239-243: the record built from a 2xx provider response
\* that carries pair id, with or without an access_token
TokenData(id, acc, at, expires_in) ==
    [id |-> id, access |-> acc, expires_at |-> ExpiresAt(at, expires_in)]

\* lines 256-259: return the access_token of tok or raise
AccessResult(t) ==
    IF t.access
    THEN [kind |-> "token", id |-> t.id]
    ELSE [kind |-> "token_missing_access_token", id |-> t.id]

\* lines 692-698: what oauth_callback answers once the record is saved
CallbackResult(t) == [kind |-> "connected", id |-> t.id]

\* line 197: all_tokens[subdomain] = token_payload
FileSet(all, s, payload) == [all EXCEPT ![s] = payload]

Fail(kind) == [kind |-> kind, id |-> 0]

\* ------------------------------------------------------------------------
\* Token manager: initial state
\* ------------------------------------------------------------------------
\* A tenant starts unconnected, or connected with a record whose margin-
\* adjusted expiry has been reached ("expired"), or one tick away ("valid").
InitKinds == {"none", "expired", "valid"}

InitId(k, s) ==
    IF k[s] = "none" THEN 0
    ELSE IF s = "t1" THEN 1
    ELSE IF k["t1"] = "none" THEN 1 ELSE 2

InitExpiresAt(kind) == IF kind = "valid" THEN TickLen ELSE 0

InitRec(k, s) ==
    IF k[s] = "none" THEN NoRec
    ELSE [id |-> InitId(k, s), access |-> TRUE,
          expires_at |-> InitExpiresAt(k[s])]

InitIssued(k) ==
    LET e(s) == [sub |-> s, real_exp |-> InitExpiresAt(k[s]) + SafetyMargin,
                  access |-> TRUE]
        a == IF k["t1"] = "none" THEN <<>> ELSE <<e("t1")>>
        b == IF k["t2"] = "none" THEN <<>> ELSE <<e("t2")>>
    IN a \o b

\* the token state with the tenants as told by k
TokStart(k) ==
    /\ now = 0
    /\ tokensFile = [s \in Tenants |-> InitRec(k, s)]
    /\ issued = InitIssued(k)
    /\ pc = [p \in Procs |-> "idle"]
    /\ op = [p \in Procs |-> "none"]
    /\ sub = [p \in Procs |-> "t1"]
    /\ tok = [p \in Procs |-> NoRec]
    /\ fresh = [p \in Procs |-> NoRec]
    /\ all_tokens = [p \in Procs |-> [s \in Tenants |-> NoRec]]
    /\ calls = [p \in Procs |-> 0]
    /\ writes = [p \in Procs |-> 0]
    /\ result = [p \in Procs |-> NoResult]

TokInit == \E k \in [Tenants -> InitKinds] : TokStart(k)

\* no tenant connected and no request thread at work
TokQuiet == TokStart([s \in Tenants |-> "none"])

\* ------------------------------------------------------------------------
\* Token manager: steps of the request threads
\* ------------------------------------------------------------------------
\* time passes
Tick ==
    /\ now + TickLen <= MaxTicks * TickLen
    /\ now' = now + TickLen
    /\ UNCHANGED <<tokensFile, issued, pc, op, sub, tok, fresh,
                   all_tokens, calls, writes, result>>
    /\ UNCHANGED <<pagedvars, reportvars>>

\* _amo_get_access_token, lines 247-251 and 256-259: read the record, raise
\* not_connected without one, decide on the refresh; a record that is not
\* expired is answered from at once.  The read of tokens.json and the
\* expiry test on the local copy are taken as one step.
GatRead(p, s) ==
    /\ pc[p] = "idle"
    /\ op' = [op EXCEPT ![p] = "get"]
    /\ sub' = [sub EXCEPT ![p] = s]
    /\ LET t == tokensFile[s] IN
       IF NotConnected(t)
       THEN /\ result' = [result EXCEPT ![p] = Fail("not_connected")]
            /\ pc' = [pc EXCEPT ![p] = "done"]
            /\ UNCHANGED tok
       ELSE IF IsExpired(t, now)
       THEN /\ tok' = [tok EXCEPT ![p] = t]
            /\ pc' = [pc EXCEPT ![p] = "refresh"]
            /\ UNCHANGED result
       ELSE /\ result' = [result EXCEPT ![p] = AccessResult(t)]
            /\ pc' = [pc EXCEPT ![p] = "done"]
            /\ UNCHANGED tok
    /\ UNCHANGED <<now, tokensFile, issued, fresh, all_tokens, calls, writes>>
    /\ UNCHANGED <<pagedvars, reportvars>>

\* _amo_refresh_token, lines 225-243, called at line 252: one POST to the
\* token endpoint with tok's refresh_token.  The provider's answer is an
\* input: non-2xx, or 2xx with a new pair, with or without access_token.
GatRefresh(p) ==
    /\ pc[p] = "refresh"
    /\ calls' = [calls EXCEPT ![p] = @ + 1]
    /\ \E ok \in BOOLEAN, acc \in BOOLEAN, ei \in ExpiresInValues :
          IF ~ok
          THEN /\ result' = [result EXCEPT
                                ![p] = Fail("token_refresh_failed")]
               /\ pc' = [pc EXCEPT ![p] = "done"]
               /\ tok' = [tok EXCEPT ![p] = NoRec]
               /\ UNCHANGED <<issued, fresh>>
          ELSE /\ issued' = Append(issued,
                                   [sub |-> sub[p], real_exp |-> now + ei,
                                    access |-> acc])
               /\ fresh' = [fresh EXCEPT
                               ![p] = TokenData(Len(issued) + 1, acc, now, ei)]
               /\ pc' = [pc EXCEPT ![p] = "set_load"]
               /\ UNCHANGED <<result, tok>>
    /\ UNCHANGED <<now, tokensFile, op, sub, all_tokens, writes>>
    /\ UNCHANGED <<pagedvars, reportvars>>

\* oauth_callback with a code and a subdomain, lines 688-689 and 700-702,
\* and _amo_token_exchange, lines 201-222
ExchangeCall(p, s) ==
    /\ pc[p] = "idle"
    /\ op' = [op EXCEPT ![p] = "callback"]
    /\ sub' = [sub EXCEPT ![p] = s]
    /\ IF ~EnvConfigured
       THEN /\ result' = [result EXCEPT ![p] = Fail("missing_env")]
            /\ pc' = [pc EXCEPT ![p] = "done"]
            /\ UNCHANGED <<issued, fresh, calls>>
       ELSE /\ calls' = [calls EXCEPT ![p] = @ + 1]
            /\ \E ok \in BOOLEAN, acc \in BOOLEAN, ei \in ExpiresInValues :
                  IF ~ok
                  THEN /\ result' = [result EXCEPT
                                 ![p] = Fail("token_exchange_failed")]
                       /\ pc' = [pc EXCEPT ![p] = "done"]
                       /\ UNCHANGED <<issued, fresh>>
                  ELSE /\ issued' = Append(issued,
                                       [sub |-> s, real_exp |-> now + ei,
                                        access |-> acc])
                       /\ fresh' = [fresh EXCEPT
                               ![p] = TokenData(Len(issued) + 1, acc, now, ei)]
                       /\ pc' = [pc EXCEPT ![p] = "set_load"]
                       /\ UNCHANGED result
    /\ UNCHANGED <<now, tokensFile, tok, all_tokens, writes>>
    /\ UNCHANGED <<pagedvars, reportvars>>

\* _tokens_set, line 196: all_tokens = _tokens_all()
TokensSetLoad(p) ==
    /\ pc[p] = "set_load"
    /\ all_tokens' = [all_tokens EXCEPT ![p] = tokensFile]
    /\ pc' = [pc EXCEPT ![p] = "set_save"]
    /\ UNCHANGED <<now, tokensFile, issued, op, sub, tok, fresh,
                   calls, writes, result>>
    /\ UNCHANGED <<pagedvars, reportvars>>

\* _tokens_set, lines 197-198, then the rest of the caller: lines 254-259
\* of _amo_get_access_token, or lines 691-698 of oauth_callback
TokensSetSave(p) ==
    /\ pc[p] = "set_save"
    /\ tokensFile' = FileSet(all_tokens[p], sub[p], fresh[p])
    /\ writes' = [writes EXCEPT ![p] = @ + 1]
    /\ result' = [result EXCEPT
                     ![p] = IF op[p] = "get" THEN AccessResult(fresh[p])
                            ELSE CallbackResult(fresh[p])]
    /\ pc' = [pc EXCEPT ![p] = "done"]
    /\ tok' = [tok EXCEPT ![p] = NoRec]
    /\ all_tokens' = [all_tokens EXCEPT ![p] = [s \in Tenants |-> NoRec]]
    /\ UNCHANGED <<now, issued, op, sub, fresh, calls>>
    /\ UNCHANGED <<pagedvars, reportvars>>

\* ------------------------------------------------------------------------
\* Paginated collector: _amo_list_paged, lines 282-309
\* ------------------------------------------------------------------------
\* line 288 with the bound off by one
LoopCondMut(pg, mp) == pg <= mp + 1
\* line 288: while page <= max_pages
LoopCond(pg, mp) == pg <= mp

\* What a page response embeds: a list under one of the known keys
\* ("known"), a list under another key only ("other"), or no list at all
\* ("absent").  Lines 291-302: the items read from it.
EmbeddedKinds == {"known", "other", "absent"}
ItemsOf(kind, n) == IF kind = "absent" THEN 0 ELSE n

\* lines 303-304: if items: out.extend(items)
Extend(o, pg, n) == o \o [i \in 1..n |-> pg]

PagedInit ==
    /\ pg_pc = "idle"
    /\ max_pages = 1
    /\ page = 1
    /\ out = <<>>
    /\ requests = 0
    /\ lastItems = -1
    /\ lastNext = FALSE
    /\ firstPage = "none"

\* lines 284-288: a call with max_pages = mp (a finished walk may be
\* followed by another one, which starts again from page 1)
PagedStart(mp) ==
    /\ pg_pc \in {"idle", "done", "error"}
    /\ max_pages' = mp
    /\ page' = 1
    /\ out' = <<>>
    /\ requests' = 0
    /\ lastItems' = -1
    /\ lastNext' = FALSE
    /\ firstPage' = "none"
    /\ pg_pc' = IF LoopCond(1, mp) THEN "loop" ELSE "done"
    /\ UNCHANGED <<tokvars, reportvars>>

\* lines 289-308: one turn of the loop.  _amo_request raises (no token,
\* refresh rejected, non-2xx answer) or returns a page: kind of embedded
\* list, n items, next link or not.
PagedFetch ==
    /\ pg_pc = "loop"
    /\ requests' = requests + 1
    /\ \E ok \in BOOLEAN, kind \in EmbeddedKinds, n \in 0..MaxItems,
          next \in BOOLEAN :
          IF ~ok
          THEN /\ pg_pc' = "error"
               /\ UNCHANGED <<page, out, lastItems, lastNext, firstPage>>
          ELSE /\ out' = Extend(out, page, ItemsOf(kind, n))
               /\ lastItems' = ItemsOf(kind, n)
               /\ lastNext' = next
               /\ firstPage' = IF page # 1 THEN firstPage
                               ELSE IF ItemsOf(kind, n) = 0 /\ ~next
                               THEN "empty_last" ELSE "other"
               /\ IF ~next
                  THEN /\ pg_pc' = "done"
                       /\ UNCHANGED page
                  ELSE /\ page' = page + 1
                       /\ pg_pc' = IF LoopCond(page + 1, max_pages)
                                   THEN "loop" ELSE "done"
    /\ UNCHANGED max_pages
    /\ UNCHANGED <<tokvars, reportvars>>

\* ------------------------------------------------------------------------
\* Report: report_dashboard, lines 754-967, and the activity helpers
\* ------------------------------------------------------------------------
\* line 773
stale_ts_cutoff == ReportNow - stale_days * DaySeconds

\* the leads an upstream page may carry
StatusIds == {100, StatusWon, StatusLost}
UserIds == {1, 2}
PipelineIds == {7}
\* values of the manager_id and pipeline_id parameters (0: not given)
ManagerFilters == {0} \cup UserIds
PipelineFilters == {0, 7, 8}
UpdatedAts == {stale_ts_cutoff - 1, stale_ts_cutoff, stale_ts_cutoff + 1}
\* price of the leads of the prefilter answers whose activity is examined
\* (the deep check does not read it)
LeadPrices == {10}
LeadAttrs == [status_id : StatusIds, responsible_user_id : UserIds,
              pipeline_id : PipelineIds, updated_at : UpdatedAts,
              price : LeadPrices]
\* what a task, note or event lookup may answer: a timestamp (0: nothing
\* found), or -1 when its request fails
TsValues == {0, stale_ts_cutoff - 1, stale_ts_cutoff, stale_ts_cutoff + 1}
TsAnswers == TsValues \cup {-1}

\* a lead list of a response: the lead at position i has id i
LeadLists ==
    UNION {[1..n -> LeadAttrs] : n \in 0..MaxLeads}
WithIds(ls) ==
    [i \in 1..Len(ls) |->
        [id |-> i, status_id |-> ls[i].status_id,
         responsible_user_id |-> ls[i].responsible_user_id,
         pipeline_id |-> ls[i].pipeline_id,
         updated_at |-> ls[i].updated_at,
         price |-> ls[i].price]]

Max3(a, b, c) == Max(a, Max(b, c))

\* lines 811-817: is lead l kept as a stale candidate
IsCandidate(l, mid, pid) ==
    /\ l.status_id \notin {StatusWon, StatusLost}
    /\ ~(mid # 0 /\ l.responsible_user_id # mid)
    /\ ~(pid # 0 /\ l.pipeline_id # pid)

RECURSIVE Candidates(_, _, _)
\* lines 809-818: the leads of maybe_stale that are kept, in order
Candidates(q, mid, pid) ==
    IF q = <<>> THEN <<>>
    ELSE IF IsCandidate(Head(q), mid, pid)
    THEN <<Head(q)>> \o Candidates(Tail(q), mid, pid)
    ELSE Candidates(Tail(q), mid, pid)

\* line 822: candidates[:MAX_STALE_ACTIVITY_CHECK]
Deep(c) == SubSeq(c, 1, IF Len(c) < MAX_STALE_ACTIVITY_CHECK
                        THEN Len(c) ELSE MAX_STALE_ACTIVITY_CHECK)

\* lines 823-828 with >= in the place of >
WarningsMut(c) ==
    IF Len(c) >= MAX_STALE_ACTIVITY_CHECK
    THEN <<[candidates |-> Len(c), processed |-> MAX_STALE_ACTIVITY_CHECK]>>
    ELSE <<>>
\* lines 823-828: the warning names the number of candidates and the cap
Warnings(c) ==
    IF Len(c) > MAX_STALE_ACTIVITY_CHECK
    THEN <<[candidates |-> Len(c), processed |-> MAX_STALE_ACTIVITY_CHECK]>>
    ELSE <<>>

\* lines 360-374 with the except branch answering False
LeadHasOpenTasksMut(fails, open) == IF fails THEN FALSE ELSE open
\* _lead_has_open_tasks, lines 360-374: fails tells whether _amo_request
\* raised, open whether the upstream holds an incomplete task of the lead
LeadHasOpenTasks(fails, open) == IF fails THEN TRUE ELSE open

\* _lead_last_task_ts, _lead_last_note_ts, _lead_last_event_ts, lines
\* 377-430: the timestamp the upstream answers, 0 when the request fails
LeadLastTs(answer) == IF answer = -1 THEN 0 ELSE answer

\* _lead_last_activity_ts, lines 435-448
LeadLastActivityTs(updated_at, lt, ln) == Max3(updated_at, lt, ln)

\* lines 837 and 844 with >= in the place of >
IsRecentMut(ts) == ts # 0 /\ ts >= stale_ts_cutoff
\* lines 837 and 844: if ts and ts > stale_ts_cutoff: continue
IsRecent(ts) == ts # 0 /\ ts > stale_ts_cutoff

\* an exception of _amo_list_paged with the handler swallowing it
AfterFetchMut(ok, nextpc) == nextpc
\* lines 777 and 965-967: an exception of _amo_list_paged ends the request
AfterFetch(ok, nextpc) == IF ok THEN nextpc ELSE "error"

\* ------------------------------------------------------------------------
\* report_dashboard: the lost leads and the aggregation (lines 780-802 and
\* 851-963)
\* ------------------------------------------------------------------------
\* Names are numbers ordered as Python orders the strings they stand for:
\* str(uid) is the decimal of uid, below every letter; 11 and 12 are two
\* user names ("Alice", "Bob"), 21 a loss reason name, 29 the sentinel.
UserNames == {11, 12}
ReasonNames == {21}
\* line 894: "Без причины"
NoReasonName == 29
\* loss_reason_id of a lead (0: None or absent)
ReasonIds == {0, 5}
\* price of a lead (0 also stands for None or absent: int(price or 0))
Prices == {0, 10}

\* line 780: user_name, the names of the users that carry an id
UserDirs ==
    {[u \in {1, 2} |-> IF u = 1 THEN 11 ELSE 12],
     [u \in {1, 2} |-> IF u = 1 THEN 12 ELSE 11],
     [u \in {1} |-> 11]}
\* line 783: reason_name
ReasonDirs == {[r \in {5} |-> 21], [r \in {} |-> 21]}

\* str(uid), lines 860, 876 and 881
StrOfUid(uid) == uid
\* lines 860 and 881: user_name.get(uid) or str(uid)
ManagerName(un, uid) == IF uid \in DOMAIN un THEN un[uid] ELSE StrOfUid(uid)
\* line 894: reason_name.get(loss_reason_id, "Без причины")
ReasonNameOf(rn, rid) == IF rid \in DOMAIN rn THEN rn[rid] ELSE NoReasonName

\* the leads the closed-leads query may return, all of them closed (the
\* query filters on closed_at); the lead at position i has id 10 + i (no
\* lead is both in this answer and in the prefilter's)
ClosedStatusIds == {StatusWon, StatusLost}
ClosedAttrs == [status_id : ClosedStatusIds, responsible_user_id : UserIds,
                pipeline_id : PipelineIds, price : Prices,
                loss_reason_id : ReasonIds]
ClosedLists ==
    UNION {[1..n -> ClosedAttrs] : n \in 0..MaxClosed}
ClosedWithIds(ls) ==
    [i \in 1..Len(ls) |->
        [id |-> 10 + i, status_id |-> ls[i].status_id,
         responsible_user_id |-> ls[i].responsible_user_id,
         pipeline_id |-> ls[i].pipeline_id,
         price |-> ls[i].price,
         loss_reason_id |-> ls[i].loss_reason_id]]

\* lines 796-801: is lead l of closed kept as a lost lead
IsLost(l, mid, pid) ==
    /\ l.status_id = StatusLost
    /\ ~(mid # 0 /\ l.responsible_user_id # mid)
    /\ ~(pid # 0 /\ l.pipeline_id # pid)

RECURSIVE LostLeads(_, _, _)
\* lines 794-802: the leads of closed that are kept, in order
LostLeads(q, mid, pid) ==
    IF q = <<>> THEN <<>>
    ELSE IF IsLost(Head(q), mid, pid)
    THEN <<Head(q)>> \o LostLeads(Tail(q), mid, pid)
    ELSE LostLeads(Tail(q), mid, pid)

\* _days_since, lines 344-347
DaysSince(ts) ==
    IF ts = 0 THEN 0 ELSE Max(0, (ReportNow - ts) \div DaySeconds)

\* pack_lead, lines 852-869: the fields the orderings read, and the reason
PackLost(l) ==
    [id |-> l.id, price |-> l.price,
     loss_reason_id |-> l.loss_reason_id]
PackStale(l) ==
    [id |-> l.id, price |-> l.price,
     last_activity_ts |-> l.last_activity_ts,
     days_no_activity |-> DaysSince(l.last_activity_ts)]

\* lines 879-889 and 906-916: the aggregate setdefault creates
NewAggregate(uid, un) ==
    [manager_id |-> uid, manager_name |-> ManagerName(un, uid),
     lost_count |-> 0, lost_sum |-> 0, lost_by_reason |-> <<>>,
     lost_leads |-> <<>>,
     stale_count |-> 0, stale_sum |-> 0, stale_leads |-> <<>>]

\* per_manager and lost_by_reason are dicts: sequences in insertion order.
\* Position of key k (line 876: str(uid)) in per_manager (0: absent)
ManagerIndex(d, k) ==
    IF \E i \in 1..Len(d) : StrOfUid(d[i].manager_id) = k
    THEN CHOOSE i \in 1..Len(d) : StrOfUid(d[i].manager_id) = k
    ELSE 0
\* Position of key k (line 895: rname) in lost_by_reason (0: absent)
ReasonIndex(d, k) ==
    IF \E i \in 1..Len(d) : d[i].reason = k
    THEN CHOOSE i \in 1..Len(d) : d[i].reason = k
    ELSE 0

\* per_manager.setdefault(k, v), lines 877 and 904: d itself, or d with v
\* under the new key
SetDefaultManager(d, k, v) ==
    IF ManagerIndex(d, k) = 0 THEN Append(d, v) ELSE d
\* pm["lost_by_reason"].setdefault(k, v), line 895
SetDefaultReason(d, k, v) ==
    IF ReasonIndex(d, k) = 0 THEN Append(d, v) ELSE d

\* lines 894-897 with the sum left out of the reason entry
AddReasonMut(rbs, rname, price) ==
    LET d == SetDefaultReason(rbs, rname,
                              [reason |-> rname, count |-> 0, sum |-> 0])
        i == ReasonIndex(d, rname)
    IN [d EXCEPT ![i].count = @ + 1]
\* lines 894-897: the reason entry of a lost lead
AddReason(rbs, rname, price) ==
    LET d == SetDefaultReason(rbs, rname,
                              [reason |-> rname, count |-> 0, sum |-> 0])
        i == ReasonIndex(d, rname)
    IN [d EXCEPT ![i].count = @ + 1, ![i].sum = @ + price]

\* lines 875-898: one turn of "for l in lost_leads"
AddLost(per_manager, l, un, rn) ==
    LET uid == l.responsible_user_id
        d == SetDefaultManager(per_manager, StrOfUid(uid),
                               NewAggregate(uid, un))
        i == ManagerIndex(d, StrOfUid(uid))
    IN [d EXCEPT ![i].lost_count = @ + 1,
                 ![i].lost_sum = @ + l.price,
                 ![i].lost_by_reason =
                      AddReason(@, ReasonNameOf(rn, l.loss_reason_id),
                                l.price),
                 ![i].lost_leads = Append(@, PackLost(l))]

\* lines 902-921: one turn of "for l in stale_leads"
AddStale(per_manager, l, un) ==
    LET uid == l.responsible_user_id
        d == SetDefaultManager(per_manager, StrOfUid(uid),
                               NewAggregate(uid, un))
        i == ManagerIndex(d, StrOfUid(uid))
    IN [d EXCEPT ![i].stale_count = @ + 1,
                 ![i].stale_sum = @ + l.price,
                 ![i].stale_leads = Append(@, PackStale(l))]

RECURSIVE AggregateLost(_, _, _, _)
\* lines 874-898
AggregateLost(per_manager, q, un, rn) ==
    IF q = <<>> THEN per_manager
    ELSE AggregateLost(AddLost(per_manager, Head(q), un, rn), Tail(q),
                       un, rn)

RECURSIVE AggregateStale(_, _, _)
\* lines 901-921
AggregateStale(per_manager, q, un) ==
    IF q = <<>> THEN per_manager
    ELSE AggregateStale(AddStale(per_manager, Head(q), un), Tail(q), un)

\* tuples of numbers compared as Python compares tuples
TupleLess(a, b) ==
    \E i \in 1..Len(a) :
        /\ a[i] < b[i]
        /\ \A j \in 1..(i - 1) : a[j] = b[j]

\* list.sort(key=...) is stable: x goes behind every element whose key is
\* not greater than its own
RECURSIVE InsertByKey(_, _)
InsertByKey(x, sorted) ==
    IF sorted = <<>> THEN <<x>>
    ELSE IF TupleLess(x.key, Head(sorted).key)
    THEN <<x>> \o sorted
    ELSE <<Head(sorted)>> \o InsertByKey(x, Tail(sorted))

RECURSIVE SortByKey(_)
\* the pairs [key, val] in the order of list.sort
SortByKey(pairs) ==
    IF pairs = <<>> THEN <<>>
    ELSE InsertByKey(pairs[Len(pairs)],
                     SortByKey(SubSeq(pairs, 1, Len(pairs) - 1)))

Vals(pairs) == [i \in 1..Len(pairs) |-> pairs[i].val]

\* line 927
ReasonSortKey(x) == <<-x.sum, -x.count, x.reason>>
\* line 929
LostLeadSortKey(x) == <<-x.price, x.id>>
\* line 930
StaleLeadSortKey(x) == <<-x.price, -x.days_no_activity, x.id>>
\* lines 934-938 with the count left out of the key
ManagerSortKeyMut(x) ==
    <<-(x.lost_sum + x.stale_sum), x.manager_name>>
\* lines 934-938
ManagerSortKey(x) ==
    <<-(x.lost_sum + x.stale_sum), -(x.lost_count + x.stale_count),
      x.manager_name>>

\* lines 926-930: one turn of "for pm in per_manager.values()"
FormatManager(pm) ==
    [pm EXCEPT
        !.lost_by_reason =
            Vals(SortByKey([i \in 1..Len(@) |->
                               [key |-> ReasonSortKey(@[i]), val |-> @[i]]])),
        !.lost_leads =
            Vals(SortByKey([i \in 1..Len(@) |->
                               [key |-> LostLeadSortKey(@[i]), val |-> @[i]]])),
        !.stale_leads =
            Vals(SortByKey([i \in 1..Len(@) |->
                               [key |-> StaleLeadSortKey(@[i]),
                                val |-> @[i]]]))]

\* lines 924-939
ManagersList(per_manager) ==
    LET formatted == [i \in 1..Len(per_manager) |->
                         FormatManager(per_manager[i])]
    IN Vals(SortByKey([i \in 1..Len(formatted) |->
                          [key |-> ManagerSortKey(formatted[i]),
                           val |-> formatted[i]]]))

RECURSIVE SumSeq(_)
\* sum(...) over a list of numbers
SumSeq(q) == IF q = <<>> THEN 0 ELSE Head(q) + SumSeq(Tail(q))

\* lines 941-947 with the stale sum left out of total_risk_sum
TotalsMut(managers_list) ==
    LET n == Len(managers_list)
        lost_sum == SumSeq([i \in 1..n |-> managers_list[i].lost_sum])
    IN [lost_count |-> SumSeq([i \in 1..n |-> managers_list[i].lost_count]),
        lost_sum |-> lost_sum,
        stale_count |->
            SumSeq([i \in 1..n |-> managers_list[i].stale_count]),
        stale_sum |-> SumSeq([i \in 1..n |-> managers_list[i].stale_sum]),
        total_risk_sum |-> lost_sum]
\* lines 941-947
Totals(managers_list) ==
    LET n == Len(managers_list)
        lost_sum == SumSeq([i \in 1..n |-> managers_list[i].lost_sum])
        stale_sum == SumSeq([i \in 1..n |-> managers_list[i].stale_sum])
    IN [lost_count |-> SumSeq([i \in 1..n |-> managers_list[i].lost_count]),
        lost_sum |-> lost_sum,
        stale_count |->
            SumSeq([i \in 1..n |-> managers_list[i].stale_count]),
        stale_sum |-> stale_sum,
        total_risk_sum |-> lost_sum + stale_sum]

NoTotals == [lost_count |-> 0, lost_sum |-> 0, stale_count |-> 0,
             stale_sum |-> 0, total_risk_sum |-> 0]

\* line 967
ErrorResponse == [ok |-> FALSE, totals |-> NoTotals, managers |-> <<>>,
                  warnings |-> <<>>]
NoResponse == [ok |-> FALSE, totals |-> NoTotals, managers |-> <<>>,
               warnings |-> <<"none">>]
ResponseOf(pcv, r) == IF pcv = "error" THEN ErrorResponse ELSE r

\* no user and no loss reason known
NoNames == [u \in {} |-> 0]

ReportInit ==
    /\ rp_pc = "idle"
    /\ manager_id = 0
    /\ pipeline_id = 0
    /\ user_name = NoNames
    /\ reason_name = NoNames
    /\ closed = <<>>
    /\ lost_leads = <<>>
    /\ candidates = <<>>
    /\ warnings = <<>>
    /\ deep_i = 1
    /\ stale_leads = <<>>
    /\ checked = <<>>
    /\ failedFetch = FALSE
    /\ truncatedFetch = FALSE
    /\ failedLookup = FALSE
    /\ response = NoResponse

\* The actions of a report take the sets inp their inputs are drawn from:
\*   filters  pairs of the manager_id and pipeline_id parameters
\*   users, reasons, closed, leads  answers of the four paginated fetches
\*   mores    whether a fetch stopped at max_pages under a next link
\*   fails    whether the open-task lookup of a lead fails
\*   opens    whether the upstream holds an incomplete task of a lead
\*   answers  answers of the task, note and event lookups of a lead

\* lines 761-775: a request with a subdomain; each request is computed on
\* its own, so one is followed through
ReportStart(inp) ==
    /\ rp_pc = "idle"
    /\ \E f \in inp.filters :
          /\ manager_id' = f[1]
          /\ pipeline_id' = f[2]
    /\ user_name' = NoNames
    /\ reason_name' = NoNames
    /\ closed' = <<>>
    /\ lost_leads' = <<>>
    /\ candidates' = <<>>
    /\ warnings' = <<>>
    /\ deep_i' = 1
    /\ stale_leads' = <<>>
    /\ checked' = <<>>
    /\ failedFetch' = FALSE
    /\ truncatedFetch' = FALSE
    /\ failedLookup' = FALSE
    /\ response' = NoResponse
    /\ rp_pc' = "users"
    /\ UNCHANGED <<tokvars, pagedvars>>

\* What every fetch of the report does besides keeping its answer: it is
\* one call of _amo_list_paged, which raises or returns.  A walk that
\* returns may have stopped at max_pages under a next link (more); its
\* return value, line 309, is the list alone.
Fetched(ok, more, nextpc) ==
    /\ failedFetch' = (failedFetch \/ ~ok)
    /\ truncatedFetch' = (truncatedFetch \/ (ok /\ more))
    /\ rp_pc' = AfterFetch(ok, nextpc)
    /\ response' = ResponseOf(AfterFetch(ok, nextpc), response)

\* lines 779-780: the users fetch
ReportUsers(inp) ==
    /\ rp_pc = "users"
    /\ \E ok \in BOOLEAN, more \in inp.mores, un \in inp.users :
          /\ Fetched(ok, more, "reasons")
          /\ user_name' = IF ok THEN un ELSE user_name
    /\ UNCHANGED <<manager_id, pipeline_id, reason_name, closed, lost_leads,
                   candidates, warnings, deep_i, stale_leads, checked,
                   failedLookup>>
    /\ UNCHANGED <<tokvars, pagedvars>>

\* lines 782-783: the loss_reasons fetch
ReportReasons(inp) ==
    /\ rp_pc = "reasons"
    /\ \E ok \in BOOLEAN, more \in inp.mores, rn \in inp.reasons :
          /\ Fetched(ok, more, "closed")
          /\ reason_name' = IF ok THEN rn ELSE reason_name
    /\ UNCHANGED <<manager_id, pipeline_id, user_name, closed, lost_leads,
                   candidates, warnings, deep_i, stale_leads, checked,
                   failedLookup>>
    /\ UNCHANGED <<tokvars, pagedvars>>

\* lines 786-802: the closed-leads fetch and the lost-lead filter
ReportClosed(inp) ==
    /\ rp_pc = "closed"
    /\ \E ok \in BOOLEAN, more \in inp.mores, ls \in inp.closed :
          /\ Fetched(ok, more, "prefilter")
          /\ closed' = IF ok THEN ClosedWithIds(ls) ELSE closed
          /\ lost_leads' =
                IF ok
                THEN LostLeads(ClosedWithIds(ls), manager_id, pipeline_id)
                ELSE lost_leads
    /\ UNCHANGED <<manager_id, pipeline_id, user_name, reason_name,
                   candidates, warnings, deep_i, stale_leads, checked,
                   failedLookup>>
    /\ UNCHANGED <<tokvars, pagedvars>>

\* lines 806-828: the prefilter fetch, the candidate filter and the cap
ReportPrefilter(inp) ==
    /\ rp_pc = "prefilter"
    /\ \E ok \in BOOLEAN, more \in inp.mores, ls \in inp.leads :
          LET maybe_stale == WithIds(ls)
              c == Candidates(maybe_stale, manager_id, pipeline_id)
          IN /\ Fetched(ok, more, "deep")
             /\ candidates' = IF ok THEN c ELSE <<>>
             /\ warnings' = IF ok THEN Warnings(c) ELSE <<>>
    /\ UNCHANGED <<manager_id, pipeline_id, user_name, reason_name, closed,
                   lost_leads, deep_i, stale_leads, checked, failedLookup>>
    /\ UNCHANGED <<tokvars, pagedvars>>

\* lines 830-849: one turn of "for l in deep".  Inputs: whether the open-
\* task request fails (fo) and whether the upstream holds an incomplete task
\* of the lead (open); the answers of the task, note and event lookups.
ReportDeep(inp) ==
    /\ rp_pc = "deep"
    /\ deep_i <= Len(Deep(candidates))
    /\ \E fo \in inp.fails, open \in inp.opens,
          tts \in inp.answers, nts \in inp.answers, ets \in inp.answers :
          LET l == Deep(candidates)[deep_i]
              has == LeadHasOpenTasks(fo, open)
              last_basic == LeadLastActivityTs(l.updated_at,
                                LeadLastTs(tts), LeadLastTs(nts))
              last_act == Max(last_basic, LeadLastTs(ets))
              stale == /\ ~has
                       /\ ~IsRecent(last_basic)
                       /\ ~IsRecent(last_act)
              swallowed == \/ fo
                           \/ (~has /\ (tts = -1 \/ nts = -1))
                           \/ (~has /\ ~IsRecent(last_basic) /\ ets = -1)
          IN /\ checked' = Append(checked,
                              [id |-> l.id, open |-> open, failed |-> fo,
                               tts |-> tts, nts |-> nts, ets |-> ets])
             /\ failedLookup' = (failedLookup \/ swallowed)
             /\ stale_leads' =
                   IF stale
                   THEN Append(stale_leads,
                               [id |-> l.id,
                                responsible_user_id |-> l.responsible_user_id,
                                price |-> l.price,
                                last_activity_ts |-> last_act])
                   ELSE stale_leads
    /\ deep_i' = deep_i + 1
    /\ UNCHANGED <<rp_pc, manager_id, pipeline_id, user_name, reason_name,
                   closed, lost_leads, candidates, warnings, failedFetch,
                   truncatedFetch, response>>
    /\ UNCHANGED <<tokvars, pagedvars>>

\* lines 851-963: the lost and the stale leads grouped by manager, the
\* orderings, the totals and the answer
ReportFinish ==
    /\ rp_pc = "deep"
    /\ deep_i > Len(Deep(candidates))
    /\ LET per_manager ==
              AggregateStale(
                  AggregateLost(<<>>, lost_leads, user_name, reason_name),
                  stale_leads, user_name)
           managers_list == ManagersList(per_manager)
       IN response' =
             [ok |-> TRUE,
              totals |-> Totals(managers_list),
              managers |-> managers_list,
              warnings |-> warnings]
    /\ rp_pc' = "done"
    /\ UNCHANGED <<manager_id, pipeline_id, user_name, reason_name, closed,
                   lost_leads, candidates, warnings, deep_i, stale_leads,
                   checked, failedFetch, truncatedFetch, failedLookup>>
    /\ UNCHANGED <<tokvars, pagedvars>>

\* the inputs of the reports whose stale-deal classification is examined:
\* no closed lead, one directory of users and of loss reasons
ReportInputs ==
    [filters |-> ManagerFilters \X PipelineFilters,
     users |-> {[u \in {1, 2} |-> IF u = 1 THEN 11 ELSE 12]},
     reasons |-> {[r \in {5} |-> 21]},
     closed |-> {<<>>},
     leads |-> LeadLists,
     mores |-> BOOLEAN,
     fails |-> BOOLEAN,
     opens |-> BOOLEAN,
     answers |-> TsAnswers]

\* the inputs of the reports whose aggregation is examined: every fetch
\* returns all its pages, and a candidate is an open lead last updated
\* before the cutoff on which every lookup succeeds and finds no task, note
\* or event
AggFilters == {<<0, 0>>, <<1, 0>>, <<0, 8>>}
AggLeadAttrs == [status_id : {100}, responsible_user_id : UserIds,
                 pipeline_id : PipelineIds,
                 updated_at : {stale_ts_cutoff - 1}, price : Prices]
AggLeadLists ==
    UNION {[1..n -> AggLeadAttrs] : n \in 0..MAX_STALE_ACTIVITY_CHECK}
AggInputs ==
    [filters |-> AggFilters,
     users |-> UserDirs,
     reasons |-> ReasonDirs,
     closed |-> ClosedLists,
     leads |-> AggLeadLists,
     mores |-> {FALSE},
     fails |-> {FALSE},
     opens |-> {FALSE},
     answers |-> {0}]

\* ------------------------------------------------------------------------
\* Specifications
\* ------------------------------------------------------------------------
vars == <<tokvars, pagedvars, reportvars>>

Init == TokInit /\ PagedInit /\ ReportInit

\* the token operations of two concurrent requests
Next ==
    \/ Tick
    \/ \E p \in Procs, s \in Tenants : GatRead(p, s)
    \/ \E p \in Procs : GatRefresh(p)
    \/ \E p \in Procs, s \in Tenants : ExchangeCall(p, s)
    \/ \E p \in Procs : TokensSetLoad(p)
    \/ \E p \in Procs : TokensSetSave(p)
Spec == Init /\ [][Next]_vars

\* no tenant connected, no request thread, walk or report at work
QuietInit == TokQuiet /\ PagedInit /\ ReportInit

\* walks of _amo_list_paged
PagedNext ==
    \/ \E mp \in 1..MaxPagesBound : PagedStart(mp)
    \/ PagedFetch
PagedSpec == QuietInit /\ [][PagedNext]_vars
\* a walk goes on: every request of a page returns or raises (requests carry
\* timeout=HTTP_TIMEOUT, line 273)
PagedFairSpec == PagedSpec /\ WF_vars(PagedFetch)

\* a run of report_dashboard
ReportNext ==
    \/ ReportStart(ReportInputs)
    \/ ReportUsers(ReportInputs)
    \/ ReportReasons(ReportInputs)
    \/ ReportClosed(ReportInputs)
    \/ ReportPrefilter(ReportInputs)
    \/ ReportDeep(ReportInputs)
    \/ ReportFinish
ReportSpec == QuietInit /\ [][ReportNext]_vars

\* a run of report_dashboard with closed leads
AggNext ==
    \/ ReportStart(AggInputs)
    \/ ReportUsers(AggInputs)
    \/ ReportReasons(AggInputs)
    \/ ReportClosed(AggInputs)
    \/ ReportPrefilter(AggInputs)
    \/ ReportDeep(AggInputs)
    \/ ReportFinish
AggSpec == QuietInit /\ [][AggNext]_vars

\* ------------------------------------------------------------------------
\* Claims about the token manager (checked under Spec)
\* ------------------------------------------------------------------------
\* the id of the pair the provider issued last for tenant s (0: none)
Latest(s) ==
    LET ids == {i \in 1..Len(issued) : issued[i].sub = s}
    IN IF ids = {} THEN 0 ELSE CHOOSE i \in ids : \A j \in ids : j <= i

\* thread p is inside a refresh of _amo_get_access_token
InRefresh(p) ==
    op[p] = "get" /\ pc[p] \in {"refresh", "set_load", "set_save"}

\* C1: single-flight.  Two calls of getValidAccessToken for one tenant that
\* run at the same time and have read the same expired record make at most
\* one call to the provider's token endpoint between them.
C1_SingleFlight ==
    \A p \in Procs, q \in Procs :
        (p # q /\ InRefresh(p) /\ InRefresh(q) /\ sub[p] = sub[q]
              /\ tok[p] = tok[q])
        => calls[p] + calls[q] <= 1

\* C2: once the calls of getValidAccessToken for one tenant have all
\* returned (and nothing else has run), the Credential Store holds for that
\* tenant the record the provider issued last.
C2_StoreHoldsLatestIssued ==
    \A s \in Tenants :
        (/\ \A p \in Procs : pc[p] \in {"idle", "done"}
         /\ \A p \in Procs : pc[p] = "done" => (op[p] = "get" /\ sub[p] = s)
         /\ Latest(s) # 0)
        => tokensFile[s].id = Latest(s)

\* thread p takes the first step of getValidAccessToken for tenant s while
\* the stored record of s is not expired
ReadsUnexpired(p, s) ==
    /\ pc[p] = "idle" /\ pc'[p] # "idle"
    /\ op'[p] = "get" /\ sub'[p] = s
    /\ tokensFile[s] # NoRec
    /\ now < tokensFile[s].expires_at

\* What every call on an unexpired record does: it returns in that step,
\* with no call to the provider and no write of the store.
UnexpiredFrame(p) ==
    /\ pc'[p] = "done"
    /\ calls'[p] = 0 /\ writes'[p] = 0
    /\ tokensFile' = tokensFile
    /\ issued' = issued

\* C3 as stated: on a stored record that is not expired, getValidAccessToken
\* returns the stored access_token, calls no provider and writes no store.
C3_UnexpiredReturnsStoredToken ==
    [][\A p \in Procs, s \in Tenants :
          ReadsUnexpired(p, s)
          => /\ UnexpiredFrame(p)
             /\ result'[p] = [kind |-> "token", id |-> tokensFile[s].id]]_vars

\* C3 as amended: on a stored record that is not expired, getValidAccessToken
\* calls no provider and writes no store; it returns the stored access_token
\* when the record carries one and fails with token_missing_access_token
\* when it carries none.
C3_UnexpiredServedFromStore ==
    [][\A p \in Procs, s \in Tenants :
          ReadsUnexpired(p, s)
          => /\ UnexpiredFrame(p)
             /\ result'[p] =
                   [kind |-> IF tokensFile[s].access THEN "token"
                             ELSE "token_missing_access_token",
                    id |-> tokensFile[s].id]]_vars

\* a call of getValidAccessToken has answered from an unexpired record
C3_Witness ==
    \E p \in Procs :
        /\ op[p] = "get" /\ pc[p] = "done"
        /\ result[p].kind = "token" /\ calls[p] = 0
        /\ tokensFile[sub[p]].id = result[p].id
        /\ now < tokensFile[sub[p]].expires_at

\* C4: an access token is, in the step that returns it, valid at the
\* provider for at least the safety margin.
C4_ReturnedTokenOutlivesMargin ==
    [][\A p \in Procs :
          (result[p].kind # "token" /\ result'[p].kind = "token")
          => issued'[result'[p].id].real_exp - now' >= SafetyMargin]_vars

\* C5: without a record getValidAccessToken fails with not_connected and
\* calls no provider; when the provider rejects the refresh it fails with
\* token_refresh_failed after that one call; neither writes the store.
C5_FailuresLeaveStore ==
    [][\A p \in Procs :
          /\ \A s \in Tenants :
                (/\ pc[p] = "idle" /\ pc'[p] # "idle"
                 /\ op'[p] = "get" /\ sub'[p] = s
                 /\ tokensFile[s] = NoRec)
                => /\ pc'[p] = "done"
                   /\ result'[p].kind = "not_connected"
                   /\ calls'[p] = 0 /\ writes'[p] = 0
                   /\ issued' = issued /\ tokensFile' = tokensFile
          /\ (pc[p] = "refresh" /\ pc'[p] # "refresh" /\ issued' = issued)
                => /\ pc'[p] = "done"
                   /\ result'[p].kind = "token_refresh_failed"
                   /\ calls'[p] = 1 /\ writes'[p] = 0
                   /\ tokensFile' = tokensFile
          /\ (result'[p].kind \in {"not_connected", "token_refresh_failed"})
                => /\ pc'[p] = "done"
                   /\ writes'[p] = 0
                   /\ calls'[p] <= 1]_vars

\* one call has failed with not_connected, another with token_refresh_failed
C5_Witness ==
    \E p \in Procs, q \in Procs :
        /\ result[p].kind = "not_connected" /\ calls[p] = 0
        /\ result[q].kind = "token_refresh_failed" /\ calls[q] = 1

\* C6: an operation that has obtained from the provider a record without
\* access_token ends with token_missing_access_token.
C6_MissingAccessTokenFails ==
    \A p \in Procs :
        (pc[p] = "done" /\ fresh[p] # NoRec /\ ~fresh[p].access)
        => result[p].kind = "token_missing_access_token"

\* C18: a set of the Credential Store changes the record of its own tenant
\* only: the save of a thread leaves the stored record of every other
\* tenant as it is, so that no write for one tenant loses or reverts the
\* record of another.
C18_SetChangesOwnTenantOnly ==
    [][\A p \in Procs, s \in Tenants :
          (pc[p] = "set_save" /\ pc'[p] # "set_save" /\ s # sub[p])
          => tokensFile'[s] = tokensFile[s]]_vars

\* ------------------------------------------------------------------------
\* Claims about the paginated collector
\* ------------------------------------------------------------------------
\* C7 (under PagedFairSpec): a walk makes at most max_pages requests and
\* comes to an end; a first page with no items and no next link ends it
\* with the empty sequence and no error.
C7_CollectBounded ==
    /\ [](requests <= max_pages)
    /\ [](firstPage = "empty_last" => (pg_pc = "done" /\ out = <<>>))
    /\ (pg_pc = "loop" ~> pg_pc \in {"done", "error"})

\* a walk was stopped by max_pages while the upstream still had a next page
C7_Witness ==
    /\ pg_pc = "done"
    /\ max_pages >= 2
    /\ requests = max_pages
    /\ lastNext

\* C8 (under PagedSpec): once a response of a walk has carried no items, the
\* walk requests no further page.
C8_EmptyPageEndsWalk ==
    [][(pg_pc = "loop" /\ lastItems = 0) => requests' # requests + 1]_vars

\* ------------------------------------------------------------------------
\* Claims about the report (checked under ReportSpec)
\* ------------------------------------------------------------------------
StaleIds == {stale_leads[i].id : i \in 1..Len(stale_leads)}
ReportedStaleIds ==
    UNION {{response.managers[m].stale_leads[i].id :
               i \in 1..Len(response.managers[m].stale_leads)} :
           m \in 1..Len(response.managers)}

\* C9 as stated: no report is answered as a success after one of its
\* upstream calls has failed.
C9_AnyFailureAborts ==
    response.ok => ~(failedFetch \/ failedLookup)

\* C9 as amended: a failure of the users, loss_reasons or leads fetches
\* ends the request with the error answer, which carries no manager
\* aggregates, and no report is answered as a success after one; a failed
\* open-task lookup does not end the request and leaves its lead out of the
\* stale leads.
C9_FetchFailureAborts ==
    /\ failedFetch => (rp_pc = "error" /\ response = ErrorResponse)
    /\ response.ok => ~failedFetch
    /\ rp_pc = "error" => failedFetch
    /\ \A i \in 1..Len(checked) :
          checked[i].failed => checked[i].id \notin StaleIds

\* a fetch of the report has failed and the request has ended in the error
C9_Witness ==
    /\ failedFetch
    /\ rp_pc = "error"

\* C10: every lead reported stale was deep-checked and has no incomplete
\* task at the upstream; a lead with an incomplete task is never stale.
C10_OpenTaskNeverStale ==
    /\ \A i \in 1..Len(checked) :
          checked[i].open => /\ checked[i].id \notin StaleIds
                             /\ checked[i].id \notin ReportedStaleIds
    /\ StaleIds \subseteq {checked[i].id : i \in 1..Len(checked)}
    /\ ReportedStaleIds \subseteq StaleIds

\* a report has ended that deep-checked a lead with an incomplete task and
\* an old updated_at
C10_Witness ==
    /\ rp_pc = "done" /\ response.ok
    /\ \E i \in 1..Len(checked) :
          /\ checked[i].open
          /\ candidates[i].updated_at < stale_ts_cutoff

\* what a lookup of a timestamp has found (0: nothing, also when it failed)
Found(answer) == IF answer = -1 THEN 0 ELSE answer

\* max(updated_at, last task, last note, last relevant event timestamp) of
\* the i-th deep-checked lead
Combined(i) ==
    Max(Max3(candidates[i].updated_at, Found(checked[i].tts),
             Found(checked[i].nts)),
        Found(checked[i].ets))

\* C11 as stated: a deep-checked open lead without an incomplete task is
\* stale if and only if its combined timestamp is at or before the cutoff.
C11_StaleIffOld ==
    \A i \in 1..Len(checked) :
        ~checked[i].open
        => (checked[i].id \in StaleIds <=> Combined(i) <= stale_ts_cutoff)

\* C11 as amended: a deep-checked open lead whose open-task lookup succeeded
\* and found no incomplete task is stale if and only if the maximum of its
\* updated_at and of the timestamps its task, note and event lookups found
\* (a failed lookup finding none) is at or before the cutoff; the report
\* names exactly the stale leads.
C11_StaleIffOldWhenLookedUp ==
    /\ \A i \in 1..Len(checked) :
          (~checked[i].open /\ ~checked[i].failed)
          => (checked[i].id \in StaleIds <=> Combined(i) <= stale_ts_cutoff)
    /\ rp_pc = "done" => ReportedStaleIds = StaleIds

\* a report has ended that names stale a lead with no task, note or event
\* and updated_at = cutoff - 1
C11_Witness ==
    /\ rp_pc = "done" /\ response.ok
    /\ \E i \in 1..Len(checked) :
          /\ ~checked[i].open /\ ~checked[i].failed
          /\ checked[i].tts = 0 /\ checked[i].nts = 0 /\ checked[i].ets = 0
          /\ candidates[i].updated_at = stale_ts_cutoff - 1
          /\ checked[i].id \in ReportedStaleIds

\* the quantities a warning of the report gives a number for
WarningStates(w) ==
    {<<"candidates", w.candidates>>, <<"processed", w.processed>>}

\* the candidates are deep-checked up to position n, in order
DeepChecked(n) ==
    /\ Len(checked) = n
    /\ \A i \in 1..n : checked[i].id = candidates[i].id

\* C12 as stated: when the candidates outnumber the cap, a warning of the
\* report states how many were skipped (candidates minus cap); otherwise
\* there is no warning and every candidate is deep-checked.
C12_WarningStatesSkipped ==
    rp_pc = "done" =>
        IF Len(candidates) > MAX_STALE_ACTIVITY_CHECK
        THEN \E i \in 1..Len(response.warnings) :
                <<"skipped", Len(candidates) - MAX_STALE_ACTIVITY_CHECK>>
                    \in WarningStates(response.warnings[i])
        ELSE /\ response.warnings = <<>>
             /\ DeepChecked(Len(candidates))

\* C12 as amended: when the candidates outnumber the cap, a warning of the
\* report states the number of candidates and the number processed (the
\* cap), and exactly the first cap candidates are deep-checked; otherwise
\* there is no warning and every candidate is deep-checked.
C12_WarningStatesCandidatesAndCap ==
    rp_pc = "done" =>
        IF Len(candidates) > MAX_STALE_ACTIVITY_CHECK
        THEN /\ \E i \in 1..Len(response.warnings) :
                   WarningStates(response.warnings[i]) =
                      {<<"candidates", Len(candidates)>>,
                       <<"processed", MAX_STALE_ACTIVITY_CHECK>>}
             /\ DeepChecked(MAX_STALE_ACTIVITY_CHECK)
        ELSE /\ response.warnings = <<>>
             /\ DeepChecked(Len(candidates))

\* a report has ended whose candidates outnumbered the cap
C12_Witness ==
    /\ rp_pc = "done" /\ response.ok
    /\ Len(candidates) > MAX_STALE_ACTIVITY_CHECK
    /\ Len(response.warnings) = 1

\* C13: a successful report one of whose paginated fetches stopped at
\* max_pages under a next link carries a warning of it, that is a warning
\* besides the one of the deep-check cap.
C13_TruncatedFetchWarns ==
    (rp_pc = "done" /\ response.ok /\ truncatedFetch)
    => Len(response.warnings) > Len(Warnings(candidates))

\* ------------------------------------------------------------------------
\* Claims about the aggregation of the report (checked under AggSpec)
\* ------------------------------------------------------------------------
\* the manager aggregates of the answer
Rows == response.managers
RowIds == 1..Len(Rows)

\* the ids of the leads row m lists in bucket b; an aggregate has the
\* buckets lost and stale
BucketIds(m, b) ==
    IF b = "lost"
    THEN {Rows[m].lost_leads[i].id : i \in 1..Len(Rows[m].lost_leads)}
    ELSE {Rows[m].stale_leads[i].id : i \in 1..Len(Rows[m].stale_leads)}

\* lead l is within the manager and pipeline filters of the request
InFilters(l) ==
    /\ ~(manager_id # 0 /\ l.responsible_user_id # manager_id)
    /\ ~(pipeline_id # 0 /\ l.pipeline_id # pipeline_id)

\* the won and lost leads the closed-leads query answered for this request
ClosedDeals ==
    {closed[i] : i \in {j \in 1..Len(closed) :
                           /\ closed[j].status_id \in {StatusWon, StatusLost}
                           /\ InFilters(closed[j])}}

\* lead d is counted in exactly one bucket of one row, the row of its
\* responsible manager
InOneBucket(d) ==
    LET places == {pl \in RowIds \X {"lost", "stale"} :
                      d.id \in BucketIds(pl[1], pl[2])}
    IN /\ Cardinality(places) = 1
       /\ \A pl \in places :
             Rows[pl[1]].manager_id = d.responsible_user_id

\* C14: in every report each lead that is WON or LOST in the date window or
\* found stale is counted in exactly one bucket of the aggregate of its
\* responsible manager, which therefore exists.
C14_EveryDealInOneBucket ==
    (rp_pc = "done" /\ response.ok)
    => /\ \A d \in ClosedDeals : InOneBucket(d)
       /\ \A i \in 1..Len(stale_leads) : InOneBucket(stale_leads[i])

\* the lost leads of manager uid whose reason entry is named rname
LostOf(uid, rname) ==
    {i \in 1..Len(lost_leads) :
        /\ lost_leads[i].responsible_user_id = uid
        /\ ReasonNameOf(reason_name, lost_leads[i].loss_reason_id) = rname}

RECURSIVE PriceSum(_)
\* the sum of the prices of the lost leads at the positions I
PriceSum(I) ==
    IF I = {} THEN 0
    ELSE LET i == CHOOSE j \in I : TRUE
         IN lost_leads[i].price + PriceSum(I \ {i})

RECURSIVE EntrySum(_, _, _)
\* the sum of field f ("count" or "sum") over the first n reason entries
EntrySum(entries, n, f) ==
    IF n = 0 THEN 0
    ELSE (IF f = "count" THEN entries[n].count ELSE entries[n].sum)
         + EntrySum(entries, n - 1, f)

\* C15: in every manager aggregate the lost_by_reason entries partition the
\* manager's lost leads: the counts add up to lost_count, the sums to
\* lost_sum, every lost lead is in exactly one entry, that of its reason
\* name, and a lost lead without loss_reason_id is in the sentinel entry.
C15_ReasonsPartitionLost ==
    (rp_pc = "done" /\ response.ok) =>
    \A m \in RowIds :
        LET row == Rows[m]
            entries == row.lost_by_reason
            n == Len(entries)
        IN /\ EntrySum(entries, n, "count") = row.lost_count
           /\ EntrySum(entries, n, "sum") = row.lost_sum
           /\ \A e \in 1..n, f \in 1..n :
                 entries[e].reason = entries[f].reason => e = f
           /\ \A e \in 1..n :
                 LET I == LostOf(row.manager_id, entries[e].reason)
                 IN /\ I # {}
                    /\ entries[e].count = Cardinality(I)
                    /\ entries[e].sum = PriceSum(I)
           /\ \A i \in 1..Len(lost_leads) :
                 lost_leads[i].responsible_user_id = row.manager_id
                 => \E e \in 1..n :
                       /\ entries[e].reason =
                             ReasonNameOf(reason_name,
                                          lost_leads[i].loss_reason_id)
                       /\ lost_leads[i].loss_reason_id = 0
                          => entries[e].reason = NoReasonName

\* a report has ended in which one manager lost a lead with a known reason
\* and a lead without reason, one of them with a price
C15_Witness ==
    /\ rp_pc = "done" /\ response.ok
    /\ \E m \in RowIds :
          /\ Len(Rows[m].lost_by_reason) = 2
          /\ Rows[m].lost_sum > 0
          /\ \E e \in 1..2 : Rows[m].lost_by_reason[e].reason = NoReasonName
          /\ \E i \in 1..Len(lost_leads) : lost_leads[i].loss_reason_id = 0

Risk(row) == row.lost_sum + row.stale_sum
RiskCount(row) == row.lost_count + row.stale_count

\* C16: the managers of every report are in the order of
\* (-(lostSum+staleSum), -(lostCount+staleCount), managerName).
C16_ManagersOrdered ==
    (rp_pc = "done" /\ response.ok) =>
    \A i \in RowIds, j \in RowIds :
        i < j =>
            \/ Risk(Rows[i]) > Risk(Rows[j])
            \/ /\ Risk(Rows[i]) = Risk(Rows[j])
               /\ RiskCount(Rows[i]) > RiskCount(Rows[j])
            \/ /\ Risk(Rows[i]) = Risk(Rows[j])
               /\ RiskCount(Rows[i]) = RiskCount(Rows[j])
               /\ Rows[i].manager_name <= Rows[j].manager_name

\* a report has ended with two managers of equal lostSum+staleSum and
\* different lostCount+staleCount, the one with more leads inserted last
\* and named last
C16_Witness ==
    /\ rp_pc = "done" /\ response.ok
    /\ Len(Rows) = 2
    /\ Risk(Rows[1]) = Risk(Rows[2])
    /\ Risk(Rows[1]) > 0
    /\ RiskCount(Rows[1]) > RiskCount(Rows[2])
    /\ Rows[1].manager_name > Rows[2].manager_name
    /\ lost_leads # <<>>
    /\ lost_leads[1].responsible_user_id = Rows[2].manager_id

RECURSIVE RowSum(_, _)
\* the sum of field f over the first n rows
RowSum(n, f) ==
    IF n = 0 THEN 0
    ELSE (CASE f = "lost_count" -> Rows[n].lost_count
            [] f = "lost_sum" -> Rows[n].lost_sum
            [] f = "stale_count" -> Rows[n].stale_count
            [] f = "stale_sum" -> Rows[n].stale_sum)
         + RowSum(n - 1, f)

\* C17: in every successful report each field of totals is the sum of that
\* field over the managers list, and total_risk_sum is lost_sum + stale_sum.
C17_TotalsAreSums ==
    (rp_pc = "done" /\ response.ok) =>
        /\ response.totals.lost_count = RowSum(Len(Rows), "lost_count")
        /\ response.totals.lost_sum = RowSum(Len(Rows), "lost_sum")
        /\ response.totals.stale_count = RowSum(Len(Rows), "stale_count")
        /\ response.totals.stale_sum = RowSum(Len(Rows), "stale_sum")
        /\ response.totals.total_risk_sum =
              response.totals.lost_sum + response.totals.stale_sum

\* a report has ended with two managers, lost and stale leads with a price
C17_Witness ==
    /\ rp_pc = "done" /\ response.ok
    /\ Len(Rows) = 2
    /\ response.totals.lost_sum > 0
    /\ response.totals.stale_sum > 0
    /\ response.totals.lost_count = 2

====
